---- MODULE Spec2Model ----
(***************************************************************************)
(* The voice-bot backend's session loop (vtuber_backend/core/app.py), the  *)
(* language-model client it calls (llm/openRouter.py) and the speech       *)
(* engine it calls (tts/engine.py).                                        *)
(*                                                                         *)
(* Texts (str) are sequences of tokens: a token stands for a run of        *)
(* characters, "<emoji>" and "<ctrl>" for one character of those classes.  *)
(* The empty sequence is the empty string.                                 *)
(***************************************************************************)
EXTENDS Integers, Sequences, FiniteSets, TLC

(***************************************************************************)
(* Bounds of the model.                                                    *)
(***************************************************************************)
\* websockets that connect in the behaviours of Spec
NConns == 2
\* inbound messages received, over all connections, in Spec
MaxMsgs == 2
\* departures from the nominal run (provider faults and off-nominal results,
\* malformed messages, disconnects) in Spec
MaxFaults == 1
\* text_input messages of the one connection of SpecHist
MaxTurns == 21
\* departures from the nominal run in SpecHist
MaxHistFaults == 2
MaxArrivals == 3
MaxOrderFaults == 1
MaxCalls == 1
SmallCacheSize == 2
MaxSpeechCalls == 4
MaxHistoryLen == 11
MaxServed == 2
MaxAttempts == 2
MaxEmotionMsgs == 1
MaxEmotionFaults == 1

(***************************************************************************)
(* Program constants.                                                      *)
(***************************************************************************)
\* app.py:189-190  if len(history) > 20: history = history[-20:]
HistoryLimit == 20
\* openRouter.py:93  conversation_history[-10:]
LLMWindow == 10
\* engine.py:28  cache_size: int = 100
cache_size == 100

Conns == 1..NConns

\* str(id(websocket)): the values id() can take, as strings
Ids == {ToString(a) : a \in 1..NConns}

Min(a, b) == IF a <= b THEN a ELSE b

\* s[-n:] for n > 0
LastN(s, n) == IF Len(s) <= n THEN s ELSE SubSeq(s, Len(s) - n + 1, Len(s))

\* list.remove(x): drops the first occurrence of x
RECURSIVE list_remove(_, _)
list_remove(s, x) ==
    IF s = <<>> THEN <<>>
    ELSE IF Head(s) = x THEN Tail(s)
    ELSE <<Head(s)>> \o list_remove(Tail(s), x)

\* {"role": ..., "content": ...}
Entry(role, content) == [role |-> role, content |-> content]

(***************************************************************************)
(* app.py: the retrieval-augmented prompt.                                 *)
(***************************************************************************)
\* "\n\n".join([doc.page_content for doc in docs])
RECURSIVE join_chunks(_)
join_chunks(docs) ==
    IF docs = <<>> THEN <<>>
    ELSE IF Len(docs) = 1 THEN docs[1]
    ELSE docs[1] \o <<"<blank-line>">> \o join_chunks(Tail(docs))

\* prompt_template.format(retrieved_chunks=..., question=...); the three
\* fixed parts of the template are the tokens T1, T2, T3
prompt_template_question_alone_when_empty(retrieved_chunks, question) ==
    IF retrieved_chunks = <<>> THEN question
    ELSE <<"T1:answer-from-the-following-data:">> \o retrieved_chunks
             \o <<"T2:the-user's-question-is:">> \o question
             \o <<"T3:answer-from-the-data-or-refer-to-a-teacher">>

prompt_template(retrieved_chunks, question) ==
    <<"T1:answer-from-the-following-data:">> \o retrieved_chunks
        \o <<"T2:the-user's-question-is:">> \o question
        \o <<"T3:answer-from-the-data-or-refer-to-a-teacher">>

(***************************************************************************)
(* llm/openRouter.py: OpenRouterLLM.generate_response.                     *)
(***************************************************************************)
character_persona == <<"You are Nana, a helpful and friendly NQU AI assistant.">>

ApologyFormat == <<"I'm sorry, I couldn't process your request properly.">>
ApologyNetwork == <<"I'm sorry, I encountered a network error. Please try again later.">>
ApologyJson == <<"I'm sorry, I received an invalid response format. Please try again later.">>
ApologyError == <<"I'm sorry, I encountered an error. Please try again later.">>
Apologies == {ApologyFormat, ApologyNetwork, ApologyJson, ApologyError}

\* What requests.post and the parsing after it can come to: the kind, and the
\* content of choices[0].message when there is one.
Http(kind, content) == [kind |-> kind, content |-> content]

\* The outcomes that are failures of the call.
HttpFailureKinds ==
    {"request_error", "bad_status", "invalid_json", "invalid_json_compat",
     "no_choices", "no_content", "choices_not_a_list"}

\* lines 82-99: the messages posted to the model
build_messages_always_appends(prompt, conversation_history) ==
    <<Entry("system", character_persona)>>
        \o (IF conversation_history # <<>>
            THEN LastN(conversation_history, LLMWindow) ELSE <<>>)
        \o <<Entry("user", prompt)>>

build_messages_never_appends(prompt, conversation_history) ==
    <<Entry("system", character_persona)>>
        \o (IF conversation_history # <<>>
            THEN LastN(conversation_history, LLMWindow) ELSE <<>>)

build_messages(prompt, conversation_history) ==
    LET system == <<Entry("system", character_persona)>>
        extended == IF conversation_history # <<>>
                    THEN system \o LastN(conversation_history, LLMWindow)
                    ELSE system
    IN  IF conversation_history = <<>>
           \/ conversation_history[Len(conversation_history)].role # "user"
        THEN Append(extended, Entry("user", prompt))
        ELSE extended

\* lines 115-144: the text returned for each outcome of the request
generate_response_empty_on_error(http) ==
    IF http.kind = "content" THEN http.content ELSE <<>>

generate_response(http) ==
    CASE http.kind = "content" -> http.content
      \* requests.post raises (connection error, timeout), or
      \* raise_for_status raises HTTPError: both are RequestException
      [] http.kind \in {"request_error", "bad_status"} -> ApologyNetwork
      \* response.json() raises json.JSONDecodeError (requests < 2.27)
      [] http.kind = "invalid_json" -> ApologyJson
      \* response.json() raises requests.exceptions.JSONDecodeError, which is
      \* a RequestException too (requests >= 2.27): the first clause takes it
      [] http.kind = "invalid_json_compat" -> ApologyNetwork
      \* no "choices", an empty list, no "message" or no "content"
      [] http.kind \in {"no_choices", "no_content"} -> ApologyFormat
      \* result["choices"][0] raises (choices is an object): except Exception
      [] http.kind = "choices_not_a_list" -> ApologyError

\* The history has a last entry without a "role" key: line 97 raises
\* KeyError, inside the try.
lacks_role(conversation_history) ==
    /\ conversation_history # <<>>
    /\ "role" \notin DOMAIN conversation_history[Len(conversation_history)]

\* lines 81-144 as a whole: whether the call raises, the messages it built
\* (none when the building raised) and the text it returns
complete_builds_outside_try(prompt, conversation_history, http) ==
    IF lacks_role(conversation_history)
    THEN [raised |-> TRUE, built |-> FALSE, messages |-> <<>>, text |-> <<>>]
    ELSE [raised |-> FALSE, built |-> TRUE,
          messages |-> build_messages(prompt, conversation_history),
          text |-> generate_response(http)]

complete(prompt, conversation_history, http) ==
    IF lacks_role(conversation_history)
    THEN [raised |-> FALSE, built |-> FALSE, messages |-> <<>>,
          text |-> ApologyError]
    ELSE [raised |-> FALSE, built |-> TRUE,
          messages |-> build_messages(prompt, conversation_history),
          text |-> generate_response(http)]

(***************************************************************************)
(* tts/engine.py: TTSEngine.                                               *)
(***************************************************************************)
\* sanitize_text: drops control characters and emoji
is_valid_char(c) == c \notin {"<ctrl>", "<emoji>"}

sanitize_text(text) == SelectSeq(text, is_valid_char)

\* The dict self.cache, in insertion order: a sequence of (key, value) pairs.
cache_has(cache, text) == \E i \in 1..Len(cache) : cache[i].text = text

cache_get(cache, text) ==
    cache[CHOOSE i \in 1..Len(cache) : cache[i].text = text].audio

\* _update_cache: self.cache[text] = audio_data, then the trim
update_cache_never_trims(cache, size, text, audio_data) ==
    IF cache_has(cache, text)
    THEN [i \in 1..Len(cache) |->
            IF cache[i].text = text
            THEN [text |-> text, audio |-> audio_data]
            ELSE cache[i]]
    ELSE Append(cache, [text |-> text, audio |-> audio_data])

update_cache_drops_newest(cache, size, text, audio_data) ==
    LET stored == IF cache_has(cache, text)
                  THEN [i \in 1..Len(cache) |->
                          IF cache[i].text = text
                          THEN [text |-> text, audio |-> audio_data]
                          ELSE cache[i]]
                  ELSE Append(cache, [text |-> text, audio |-> audio_data])
    IN  IF Len(stored) > size THEN SubSeq(stored, 1, size) ELSE stored

update_cache(cache, size, text, audio_data) ==
    LET stored == IF cache_has(cache, text)
                  THEN [i \in 1..Len(cache) |->
                          IF cache[i].text = text
                          THEN [text |-> text, audio |-> audio_data]
                          ELSE cache[i]]
                  ELSE Append(cache, [text |-> text, audio |-> audio_data])
        items_to_remove == Len(stored) - size
    IN  IF Len(stored) > size
        THEN SubSeq(stored, items_to_remove + 1, Len(stored))
        ELSE stored

\* base64 of the mp3 that edge-tts writes for the text
encode_audio(text) == <<"base64-mp3-of:">> \o text

\* lines 132-169, for an engine constructed with cache_size = size and
\* use_cache = True.  ok is whether _generate_with_edge_tts_cli succeeds;
\* every failure inside (non-zero return code, timeout, exception) ends in
\* return "".  The lookup is by the text as given (line 133), the store by
\* the sanitized text (lines 140 and 162).
generate_speech_sized_caches_failure(cache, size, text, ok) ==
    IF cache_has(cache, text)
    THEN [audio |-> cache_get(cache, text), cache |-> cache]
    ELSE LET clean == sanitize_text(text)
             audio_data == IF ok THEN encode_audio(clean) ELSE <<>>
         IN  [audio |-> audio_data,
              cache |-> update_cache(cache, size, clean, audio_data)]

generate_speech_sized(cache, size, text, ok) ==
    IF cache_has(cache, text)
    THEN [audio |-> cache_get(cache, text), cache |-> cache]
    ELSE IF ~ok
    THEN [audio |-> <<>>, cache |-> cache]
    ELSE LET clean == sanitize_text(text)
             audio_data == encode_audio(clean)
         IN  [audio |-> audio_data,
              cache |-> update_cache(cache, size, clean, audio_data)]

\* generate_speech with the failure reported in the value returned
generate_speech_returns_error_text(cache, text, ok) ==
    IF cache_has(cache, text)
    THEN [audio |-> cache_get(cache, text), cache |-> cache]
    ELSE IF ~ok
    THEN [audio |-> <<"Error generating speech">>, cache |-> cache]
    ELSE [audio |-> encode_audio(sanitize_text(text)),
          cache |-> update_cache(cache, cache_size, sanitize_text(text),
                                 encode_audio(sanitize_text(text)))]

\* generate_speech(text): the audio returned and the cache afterwards
\* (use_cache is True, the default the application constructs it with).
\* ok is whether _generate_with_edge_tts_cli succeeds; every failure inside
\* (non-zero return code, timeout, exception) ends in return "".
generate_speech(cache, text, ok) ==
    generate_speech_sized(cache, cache_size, text, ok)

(***************************************************************************)
(* core/app.py: the state of the process.                                  *)
(*                                                                         *)
(* One task runs websocket_endpoint per websocket, on one event loop: a    *)
(* task runs alone from one await to the next.  The retriever, the model   *)
(* client and the speech engine are called synchronously, so the only      *)
(* awaits are accept, receive_text and send_json.                          *)
(***************************************************************************)
VARIABLES
    \* module-level state of app.py
    active_connections,     \* List[WebSocket]
    conversation_history,   \* Dict[str, List[Dict]]
    emotion_state,          \* Dict[str, str]
    cache,                  \* tts_engine.cache
    \* per websocket: the task's position and its locals
    pc,                     \* "new", "recv", "retrieve", "llm", "truncate",
                            \* "tts", "send", "closed"
    conn_id,
    data,
    final_prompt,
    response_text,
    audio_data,
    \* the transport
    connected,              \* the client's end is still open
    sent,                   \* the messages send_json has delivered
    \* history variables, read only by the properties
    llm_request,            \* the messages last posted to the model
    appended,               \* per identity, every entry ever appended
    emotion_log,            \* per identity, every emotion label received
    turn,                   \* what happened in handling the current message
    exit_cause,             \* why the task left its loop
    handled,                \* per identity, text_inputs answered
    received,               \* per websocket, messages received so far
    faults,                 \* departures from the nominal run so far
    \* the inbound side of the transport
    inbox,                  \* per websocket, frames sent and not yet received
    arrived,                \* per websocket, every frame the client sent
    log,                    \* per websocket, every frame receive_text returned
    \* what the last call of trigger_emotion_interaction did
    interaction,
    \* the calls of tts_engine.generate_speech made on their own
    tts,
    \* the last call of llm.generate_response made on its own
    llm_call,
    \* a UnityClient and its connection
    unity

vars ==
    <<active_connections, conversation_history, emotion_state, cache, pc,
      conn_id, data, final_prompt, response_text, audio_data, connected,
      sent, llm_request, appended, emotion_log, turn, exit_cause, handled,
      received, faults, inbox, arrived, log, interaction,
      tts, llm_call, unity>>

RECURSIVE SumTo(_, _)
SumTo(f, n) == IF n = 0 THEN 0 ELSE f[n] + SumTo(f, n - 1)

\* messages received so far, over all websockets
nmsgs == SumTo(received, NConns)

\* The positions at which a task is suspended in an await (or not running).
AwaitPcs == {"new", "recv", "send", "closed"}

\* No task is between two awaits: the event loop can resume one.
Idle == \A d \in Conns : pc[d] \in AwaitPcs

\* The identities of the websocket objects that are alive: id() is unique
\* among them, and the identity of a collected object can be given again.
LiveIds == {conn_id[d] : d \in {e \in Conns : pc[e] \notin {"new", "closed"}}}

\* No call of trigger_emotion_interaction yet.
NoInteraction ==
    [calls |-> 0, websocket |-> 0, emotion |-> "", llm_request |-> <<>>,
     llm_called |-> FALSE, tts_called |-> FALSE, sent |-> FALSE]

\* No call of generate_speech on its own yet: the calls, and the keys in the
\* order in which they entered the cache.
NoSpeech == [calls |-> <<>>, insertions |-> <<>>]

\* No call of generate_response on its own yet.
NoCall == [calls |-> 0]

\* UnityClient.__init__ (unity_client.py:26-46), with the connection not yet
\* made and no task started.
NewUnityClient ==
    [websocket |-> "None", running |-> FALSE, transport |-> "none",
     disconnect_pc |-> "idle", receive_pc |-> "idle",
     on_connect |-> 0, on_disconnect |-> 0, on_response |-> 0,
     on_emotion_interaction |-> 0, on_error |-> 0, pending |-> <<>>,
     served |-> 0, attempts |-> 0]

NoTurn == [retrieval |-> "none", llm |-> "none", tts |-> "none", responses |-> 0]

Init ==
    /\ active_connections = <<>>
    /\ conversation_history = [i \in {} |-> <<>>]
    /\ emotion_state = [i \in {} |-> ""]
    /\ cache = <<>>
    /\ pc = [c \in Conns |-> "new"]
    /\ conn_id = [c \in Conns |-> "unbound"]
    /\ data = [c \in Conns |-> [json |-> "unbound"]]
    /\ final_prompt = [c \in Conns |-> <<>>]
    /\ response_text = [c \in Conns |-> <<>>]
    /\ audio_data = [c \in Conns |-> <<>>]
    /\ connected = [c \in Conns |-> TRUE]
    /\ sent = [c \in Conns |-> <<>>]
    /\ llm_request = [c \in Conns |-> <<>>]
    /\ appended = [i \in {} |-> <<>>]
    /\ emotion_log = [i \in {} |-> <<>>]
    /\ turn = [c \in Conns |-> NoTurn]
    /\ exit_cause = [c \in Conns |-> "none"]
    /\ handled = [i \in Ids |-> 0]
    /\ received = [c \in Conns |-> 0]
    /\ faults = 0
    /\ inbox = [c \in Conns |-> <<>>]
    /\ arrived = [c \in Conns |-> <<>>]
    /\ log = [c \in Conns |-> <<>>]
    /\ interaction = NoInteraction
    /\ tts = NoSpeech
    /\ llm_call = NoCall
    /\ unity = NewUnityClient

(***************************************************************************)
(* Inbound messages: the text of a frame, as json.loads reads it.          *)
(***************************************************************************)
InvalidJson == [json |-> "invalid"]
JsonObject(obj) == [json |-> "object", obj |-> obj]

TextInput(content) == JsonObject([type |-> "text_input", content |-> content])
EmotionUpdate(emotion) == JsonObject([type |-> "emotion_update", emotion |-> emotion])

\* lines 165-212: where a message takes the loop body
dispatch_else_raises(msg) ==
    IF msg.json # "object" THEN "raise"
    ELSE IF "type" \notin DOMAIN msg.obj THEN "raise"
    ELSE IF msg.obj.type = "text_input"
    THEN (IF "content" \in DOMAIN msg.obj THEN "text_input" ELSE "raise")
    ELSE IF msg.obj.type = "emotion_update"
    THEN (IF "emotion" \in DOMAIN msg.obj THEN "set_emotion" ELSE "skip")
    ELSE "raise"

dispatch(msg) ==
    \* json.loads raises JSONDecodeError; request["type"] on a list raises
    \* TypeError
    IF msg.json # "object" THEN "raise"
    \* request["type"] raises KeyError
    ELSE IF "type" \notin DOMAIN msg.obj THEN "raise"
    ELSE IF msg.obj.type = "text_input"
    \* request['content'] raises KeyError (line 168)
    THEN (IF "content" \in DOMAIN msg.obj THEN "text_input" ELSE "raise")
    ELSE IF msg.obj.type = "emotion_update"
    THEN (IF "emotion" \in DOMAIN msg.obj THEN "set_emotion" ELSE "skip")
    \* no branch of the if/elif takes any other type
    ELSE "skip"

\* emotion_state[conn_id] = request["emotion"]
store_emotion_if_absent(state, id, emotion) ==
    IF id \in DOMAIN state THEN state
    ELSE [k \in DOMAIN state \cup {id} |-> IF k = id THEN emotion ELSE state[k]]

store_emotion_for_all(state, id, emotion) ==
    [k \in DOMAIN state \cup {id} |-> emotion]

store_emotion(state, id, emotion) ==
    [k \in DOMAIN state \cup {id} |-> IF k = id THEN emotion ELSE state[k]]

\* emotion_state.get(conn_id)
recorded_emotion(id) ==
    IF id \in DOMAIN emotion_state THEN emotion_state[id] ELSE "None"

\* lines 119-128: the emotions trigger_emotion_interaction has a prompt for
DistressEmotions == {"sad", "angry"}

\* lines 139-144: the message trigger_emotion_interaction sends
emotion_interaction_message(emotion, text, audio) ==
    [type |-> "emotion_interaction", emotion |-> emotion, text |-> text,
     audio |-> audio]

\* lines 209-212: what the emotion_update branch sends to the client after
\* the store: nothing, it does not call trigger_emotion_interaction
emotion_reaction_on_transition(previous, emotion) ==
    IF emotion \in DistressEmotions /\ previous # emotion
    THEN <<emotion_interaction_message(emotion, <<"caring">>, <<>>)>>
    ELSE <<>>

emotion_reaction_on_every_update(previous, emotion) ==
    IF emotion \in DistressEmotions
    THEN <<emotion_interaction_message(emotion, <<"caring">>, <<>>)>>
    ELSE <<>>

emotion_reaction(previous, emotion) == <<>>

\* lines 189-190: if len(history) > 20: history = history[-20:]
limit_history_never(history) == history

limit_history_odd(history) ==
    IF Len(history) > HistoryLimit THEN LastN(history, HistoryLimit - 1) ELSE history

limit_history_keeps_first(history) ==
    IF Len(history) > HistoryLimit THEN SubSeq(history, 1, HistoryLimit) ELSE history

limit_history(history) ==
    IF Len(history) > HistoryLimit THEN LastN(history, HistoryLimit) ELSE history

\* websocket in active_connections
is_registered(connections, c) ==
    \E i \in 1..Len(connections) : connections[i] = c

\* lines 214-222: how the task ends.  The clause for WebSocketDisconnect
\* removes the websocket without looking (list.remove raises ValueError on
\* a websocket that is not in the list, and nothing catches that); the
\* clause for Exception looks first.
exit_outcome_reraises(cause, registered) ==
    IF cause = "disconnect" THEN "uncaught" ELSE cause

exit_outcome(cause, registered) ==
    IF cause = "disconnect" /\ ~registered THEN "uncaught" ELSE cause

\* lines 173-181: the user entry of the history holds final_prompt; the
\* append of user_input is commented out
user_entry_raw(prompt, user_input) == Entry("user", user_input)

user_entry(prompt, user_input) == Entry("user", prompt)

\* lines 200-206: what the handler sends for one text_input
outbound_messages_text_then_audio(text, audio) ==
    <<[type |-> "response", text |-> text, audio |-> <<>>],
      [type |-> "response", text |-> <<>>, audio |-> audio]>>

outbound_messages(text, audio) ==
    <<[type |-> "response", text |-> text, audio |-> audio]>>

\* lines 214-222: both except clauses take the websocket out of
\* active_connections, and the task ends
handler_exit_keeps_registration(c, cause) ==
    /\ active_connections' =
           IF cause = "disconnect" THEN list_remove(active_connections, c)
           ELSE active_connections
    /\ pc' = [pc EXCEPT ![c] = "closed"]
    /\ exit_cause' =
           [exit_cause EXCEPT
              ![c] = exit_outcome(cause, is_registered(active_connections, c))]

handler_exit(c, cause) ==
    /\ active_connections' = list_remove(active_connections, c)
    /\ pc' = [pc EXCEPT ![c] = "closed"]
    /\ exit_cause' =
           [exit_cause EXCEPT
              ![c] = exit_outcome(cause, is_registered(active_connections, c))]

(***************************************************************************)
(* websocket_endpoint, one action per stretch between observable points.   *)
(***************************************************************************)
\* lines 152-158: accept, register, initialise the history; a is id(websocket)
accept(c, a) ==
    /\ pc[c] = "new"
    /\ Idle
    /\ a \notin LiveIds
    /\ active_connections' = Append(active_connections, c)
    /\ conn_id' = [conn_id EXCEPT ![c] = a]
    /\ conversation_history' =
           IF a \in DOMAIN conversation_history THEN conversation_history
           ELSE [k \in DOMAIN conversation_history \cup {a} |->
                   IF k = a THEN <<>> ELSE conversation_history[k]]
    /\ appended' =
           IF a \in DOMAIN appended THEN appended
           ELSE [k \in DOMAIN appended \cup {a} |->
                   IF k = a THEN <<>> ELSE appended[k]]
    /\ pc' = [pc EXCEPT ![c] = "recv"]
    /\ UNCHANGED <<emotion_state, cache, data, final_prompt, response_text,
                   audio_data, connected, sent, llm_request, emotion_log,
                   turn, exit_cause, handled, received, faults>>
    /\ UNCHANGED <<inbox, arrived, log, interaction,
                   tts, llm_call, unity>>

\* lines 163-170 and 209-212: receive_text returns msg; json.loads; the
\* if/elif on request["type"].  Where the frame comes from, and what becomes
\* of the frames still waiting on the transport, is said by the step that
\* takes this one.
receive_text(c, msg) ==
    /\ pc[c] = "recv"
    /\ Idle
    /\ data' = [data EXCEPT ![c] = msg]
    /\ received' = [received EXCEPT ![c] = @ + 1]
    /\ LET d == dispatch(msg)
           id == conn_id[c]
       IN  /\ faults' = faults + (IF d = "raise" THEN 1 ELSE 0)
           /\ turn' = [turn EXCEPT ![c] = NoTurn]
           /\ CASE d = "raise" ->
                     /\ handler_exit(c, "exception")
                     /\ UNCHANGED <<emotion_state, emotion_log, sent>>
                [] d = "text_input" ->
                     /\ pc' = [pc EXCEPT ![c] = "retrieve"]
                     /\ UNCHANGED <<emotion_state, emotion_log, sent,
                                    active_connections, exit_cause>>
                [] d = "set_emotion" ->
                     /\ emotion_state' = store_emotion(emotion_state, id, msg.obj.emotion)
                     /\ sent' = [sent EXCEPT ![c] =
                                    @ \o emotion_reaction(recorded_emotion(id),
                                                          msg.obj.emotion)]
                     /\ emotion_log' =
                            [k \in DOMAIN emotion_log \cup {id} |->
                               IF k = id
                               THEN (IF id \in DOMAIN emotion_log
                                     THEN Append(emotion_log[id], msg.obj.emotion)
                                     ELSE <<msg.obj.emotion>>)
                               ELSE emotion_log[k]]
                     /\ UNCHANGED <<pc, active_connections, exit_cause>>
                [] d = "skip" ->
                     UNCHANGED <<pc, emotion_state, emotion_log, sent,
                                 active_connections, exit_cause>>
    /\ log' = [log EXCEPT ![c] = Append(@, msg)]
    /\ UNCHANGED <<conversation_history, cache, conn_id, final_prompt,
                   response_text, audio_data, connected, llm_request,
                   appended, handled, arrived, interaction,
                   tts, llm_call, unity>>

\* line 163 with nothing waiting: the client sends a frame while the task
\* is suspended in receive_text, and receive_text returns it
receive_sent(c, msg) ==
    /\ connected[c]
    /\ inbox[c] = <<>>
    /\ receive_text(c, msg)
    /\ UNCHANGED inbox

\* The client sends a frame, whatever the task is doing.
client_send(c, msg) ==
    /\ pc[c] \notin {"new", "closed"}
    /\ connected[c]
    /\ inbox' = [inbox EXCEPT ![c] = Append(@, msg)]
    /\ arrived' = [arrived EXCEPT ![c] = Append(@, msg)]
    /\ UNCHANGED <<active_connections, conversation_history, emotion_state,
                   cache, pc, conn_id, data, final_prompt, response_text,
                   audio_data, connected, sent, llm_request, appended,
                   emotion_log, turn, exit_cause, handled, received, faults,
                   log, interaction,
                   tts, llm_call, unity>>

\* line 163 over the transport: receive_text returns the oldest frame that
\* the client has sent on this websocket and that was not yet returned, also
\* after the client has closed its end
receive_queued(c) ==
    /\ inbox[c] # <<>>
    /\ receive_text(c, Head(inbox[c]))
    /\ inbox' = [inbox EXCEPT ![c] = Tail(@)]

\* lines 214-216: receive_text raises WebSocketDisconnect
receive_disconnect(c) ==
    /\ pc[c] = "recv"
    /\ ~connected[c]
    /\ inbox[c] = <<>>
    /\ Idle
    /\ handler_exit(c, "disconnect")
    /\ UNCHANGED <<conversation_history, emotion_state, cache, conn_id, data,
                   final_prompt, response_text, audio_data, connected, sent,
                   llm_request, appended, emotion_log, turn, handled, received,
                   faults>>
    /\ UNCHANGED <<inbox, arrived, log, interaction,
                   tts, llm_call, unity>>

\* What retriever.get_relevant_documents comes to: it raises, or returns docs
\* (the page_content of each).
Retrieval(raises, docs) == [raises |-> raises, docs |-> docs]

\* The nominal run: the retriever finds passages, the model answers with plain
\* text, the synthesis succeeds.  Everything else is counted in faults.
off_nominal_retrieval(r) == r.raises \/ r.docs = <<>>

off_nominal_http(http) ==
    http.kind \in HttpFailureKinds \/ sanitize_text(http.content) # http.content

\* lines 171-181: history is conversation_history[conn_id] itself (the same
\* list object), so history.append changes the stored list
retrieve_and_append(c, r) ==
    /\ pc[c] = "retrieve"
    /\ faults' = faults + (IF off_nominal_retrieval(r) THEN 1 ELSE 0)
    /\ IF r.raises
       THEN /\ handler_exit(c, "exception")
            /\ turn' = [turn EXCEPT ![c].retrieval = "raise"]
            /\ UNCHANGED <<final_prompt, conversation_history, appended>>
       ELSE LET user_input == data[c].obj.content
                retrieved_chunks == join_chunks(r.docs)
                prompt == prompt_template(retrieved_chunks, user_input)
                id == conn_id[c]
            IN  /\ final_prompt' = [final_prompt EXCEPT ![c] = prompt]
                /\ conversation_history' =
                       [conversation_history EXCEPT
                          ![id] = Append(@, user_entry(prompt, user_input))]
                /\ appended' =
                       [appended EXCEPT
                          ![id] = Append(@, user_entry(prompt, user_input))]
                /\ turn' = [turn EXCEPT ![c].retrieval =
                               IF r.docs = <<>> THEN "empty" ELSE "docs"]
                /\ pc' = [pc EXCEPT ![c] = "llm"]
                /\ UNCHANGED <<active_connections, exit_cause>>
    /\ UNCHANGED <<emotion_state, cache, conn_id, data, response_text,
                   audio_data, connected, sent, llm_request, emotion_log,
                   handled, received>>
    /\ UNCHANGED <<inbox, arrived, log, interaction,
                   tts, llm_call, unity>>

\* lines 182-186: generate_response, then history.append of the reply
call_llm(c, http) ==
    /\ pc[c] = "llm"
    /\ LET id == conn_id[c]
           history == conversation_history[id]
           reply == generate_response(http)
       IN  /\ llm_request' =
                  [llm_request EXCEPT ![c] = build_messages(final_prompt[c], history)]
           /\ response_text' = [response_text EXCEPT ![c] = reply]
           /\ conversation_history' =
                  [conversation_history EXCEPT
                     ![id] = Append(@, Entry("assistant", reply))]
           /\ appended' =
                  [appended EXCEPT ![id] = Append(@, Entry("assistant", reply))]
    /\ turn' = [turn EXCEPT ![c].llm =
                   IF http.kind \in HttpFailureKinds THEN "fail" ELSE "ok"]
    /\ faults' = faults + (IF off_nominal_http(http) THEN 1 ELSE 0)
    /\ pc' = [pc EXCEPT ![c] = "truncate"]
    /\ UNCHANGED <<active_connections, emotion_state, cache, conn_id, data,
                   final_prompt, audio_data, connected, sent, emotion_log,
                   exit_cause, handled, received>>
    /\ UNCHANGED <<inbox, arrived, log, interaction,
                   tts, llm_call, unity>>

\* lines 189-191: the truncation, and the store of the (new) list
truncate_and_store(c) ==
    /\ pc[c] = "truncate"
    /\ conversation_history' =
           [conversation_history EXCEPT ![conn_id[c]] = limit_history(@)]
    /\ pc' = [pc EXCEPT ![c] = "tts"]
    /\ UNCHANGED <<active_connections, emotion_state, cache, conn_id, data,
                   final_prompt, response_text, audio_data, connected, sent,
                   llm_request, appended, emotion_log, turn, exit_cause,
                   handled, received, faults>>
    /\ UNCHANGED <<inbox, arrived, log, interaction,
                   tts, llm_call, unity>>

\* The synthesis is attempted (the text is not in the cache) and fails.
off_nominal_speech(c, ok) == ~ok /\ ~cache_has(cache, response_text[c])

\* line 195: audio_data = tts_engine.generate_speech(response_text)
speech(c, ok) ==
    /\ pc[c] = "tts"
    /\ LET hit == cache_has(cache, response_text[c])
           res == generate_speech(cache, response_text[c], ok)
       IN  /\ audio_data' = [audio_data EXCEPT ![c] = res.audio]
           /\ cache' = res.cache
           /\ turn' = [turn EXCEPT ![c].tts =
                          IF hit THEN "hit" ELSE IF ok THEN "ok" ELSE "fail"]
           /\ faults' = faults + (IF off_nominal_speech(c, ok) THEN 1 ELSE 0)
    /\ pc' = [pc EXCEPT ![c] = "send"]
    /\ UNCHANGED <<active_connections, conversation_history, emotion_state,
                   conn_id, data, final_prompt, response_text, connected,
                   sent, llm_request, appended, emotion_log, exit_cause,
                   handled, received>>
    /\ UNCHANGED <<inbox, arrived, log, interaction,
                   tts, llm_call, unity>>

\* lines 200-207: await websocket.send_json(...), then back to receive_text;
\* on a closed transport send_json raises and an except clause ends the task
send_json_not_awaited(c) ==
    /\ pc[c] = "send"
    /\ Idle
    /\ pc' = [pc EXCEPT ![c] = "recv"]
    /\ UNCHANGED <<active_connections, conversation_history, emotion_state,
                   cache, conn_id, data, final_prompt, response_text,
                   audio_data, connected, sent, llm_request, appended,
                   emotion_log, turn, exit_cause, handled, received, faults,
                   inbox, arrived, log, interaction,
                   tts, llm_call, unity>>

send_json(c) ==
    /\ pc[c] = "send"
    /\ Idle
    /\ IF connected[c]
       THEN /\ sent' = [sent EXCEPT ![c] =
                           @ \o outbound_messages(response_text[c],
                                                  audio_data[c])]
            /\ turn' = [turn EXCEPT ![c].responses = @ + 1]
            /\ handled' = [handled EXCEPT ![conn_id[c]] = @ + 1]
            /\ pc' = [pc EXCEPT ![c] = "recv"]
            /\ UNCHANGED <<active_connections, exit_cause>>
       ELSE /\ handler_exit(c, "disconnect")
            /\ UNCHANGED <<sent, turn, handled>>
    /\ UNCHANGED <<conversation_history, emotion_state, cache, conn_id, data,
                   final_prompt, response_text, audio_data, connected,
                   llm_request, appended, emotion_log, received, faults>>
    /\ UNCHANGED <<inbox, arrived, log, interaction,
                   tts, llm_call, unity>>

(***************************************************************************)
(* trigger_emotion_interaction(websocket, emotion).                        *)
(***************************************************************************)
\* The else branch of lines 122-128 returns before anything is called.
NoPrompt == <<>>

\* lines 122-128: the prompt for each emotion
emotion_prompt_with_default(emotion) ==
    CASE emotion = "sad" -> <<"the-user-looks-sad:ask-if-they-are-okay">>
      [] emotion = "angry" -> <<"the-user-looks-upset:ask-what-bothers-them">>
      [] OTHER -> <<"the-user-looks-neutral:say-something-engaging">>

emotion_prompt(emotion) ==
    CASE emotion = "sad" -> <<"the-user-looks-sad:ask-if-they-are-okay">>
      [] emotion = "angry" -> <<"the-user-looks-upset:ask-what-bothers-them">>
      [] OTHER -> NoPrompt

\* line 131: the history given to generate_response is the literal []
interaction_history_of_session(history) == history

interaction_history(history) == <<>>

\* The synthesis of the reply is attempted and fails.
off_nominal_interaction(emotion, http, ok) ==
    /\ emotion_prompt(emotion) # NoPrompt
    /\ \/ off_nominal_http(http)
       \/ ~ok /\ ~cache_has(cache, generate_response(http))

\* lines 119-146, called for an open websocket c of active_connections: the
\* whole body runs up to its only await, the send_json, whose exception on a
\* closed transport is caught and logged like any other
trigger_emotion_interaction(c, emotion, http, ok) ==
    /\ is_registered(active_connections, c)
    /\ Idle
    /\ LET prompt == emotion_prompt(emotion)
           history == conversation_history[conn_id[c]]
           response == generate_response(http)
           res == generate_speech(cache, response, ok)
       IN  IF prompt = NoPrompt
           THEN /\ interaction' =
                       [calls |-> interaction.calls + 1, websocket |-> c,
                        emotion |-> emotion, llm_request |-> <<>>,
                        llm_called |-> FALSE, tts_called |-> FALSE,
                        sent |-> FALSE]
                /\ UNCHANGED <<cache, sent>>
           ELSE /\ interaction' =
                       [calls |-> interaction.calls + 1, websocket |-> c,
                        emotion |-> emotion,
                        llm_request |->
                            build_messages(prompt, interaction_history(history)),
                        llm_called |-> TRUE, tts_called |-> TRUE,
                        sent |-> connected[c]]
                /\ cache' = res.cache
                /\ sent' =
                       IF connected[c]
                       THEN [sent EXCEPT ![c] =
                               Append(@, emotion_interaction_message(
                                             emotion, response, res.audio))]
                       ELSE sent
    /\ faults' = faults + (IF off_nominal_interaction(emotion, http, ok)
                           THEN 1 ELSE 0)
    /\ UNCHANGED <<active_connections, conversation_history, emotion_state,
                   pc, conn_id, data, final_prompt, response_text, audio_data,
                   connected, llm_request, appended, emotion_log, turn,
                   exit_cause, handled, received, inbox, arrived, log,
                   tts, llm_call, unity>>

(***************************************************************************)
(* tts_engine.generate_speech called on its own.                           *)
(***************************************************************************)
\* One call of generate_speech(text) on an engine constructed with
\* cache_size = SmallCacheSize: lines 122-169 with _update_cache
generate_speech_call(text, ok) ==
    LET hit == cache_has(cache, text)
        clean == sanitize_text(text)
        res == generate_speech_sized(cache, SmallCacheSize, text, ok)
    IN  /\ cache' = res.cache
        /\ tts' =
               [calls |->
                    Append(tts.calls,
                           [text |-> text, hit |-> hit, synthesis |-> ~hit,
                            succeeded |-> ~hit /\ ok, audio |-> res.audio]),
                insertions |->
                    IF ~hit /\ ok /\ ~cache_has(cache, clean)
                    THEN Append(tts.insertions, clean)
                    ELSE tts.insertions]
        /\ UNCHANGED <<active_connections, conversation_history,
                       emotion_state, pc, conn_id, data, final_prompt,
                       response_text, audio_data, connected, sent,
                       llm_request, appended, emotion_log, turn, exit_cause,
                       handled, received, faults, inbox, arrived, log,
                       interaction, llm_call, unity>>

(***************************************************************************)
(* llm.generate_response called on its own.                                *)
(***************************************************************************)
\* One call of generate_response(prompt, history), with what
\* the request comes to
generate_response_call(prompt, history, http) ==
    /\ llm_call = NoCall
    /\ llm_call' =
           [calls |-> 1, prompt |-> prompt, history |-> history,
            http |-> http, result |-> complete(prompt, history, http)]
    /\ UNCHANGED <<active_connections, conversation_history, emotion_state,
                   cache, pc, conn_id, data, final_prompt, response_text,
                   audio_data, connected, sent, llm_request, appended,
                   emotion_log, turn, exit_cause, handled, received, faults,
                   inbox, arrived, log, interaction, tts, unity>>

\* The client closes its end, at any time.
client_disconnect(c) ==
    /\ pc[c] \notin {"new", "closed"}
    /\ connected[c]
    /\ connected' = [connected EXCEPT ![c] = FALSE]
    /\ faults' = faults + 1
    /\ UNCHANGED <<active_connections, conversation_history, emotion_state,
                   cache, pc, conn_id, data, final_prompt, response_text,
                   audio_data, sent, llm_request, appended, emotion_log, turn,
                   exit_cause, handled, received>>
    /\ UNCHANGED <<inbox, arrived, log, interaction,
                   tts, llm_call, unity>>

(***************************************************************************)
(* The inputs, and the next-state relations.                               *)
(***************************************************************************)
Questions == {<<"q1">>}
Emotions == {"sad", "happy"}
Replies == {<<"hello">>, <<"hi", "<emoji>">>}

Messages ==
    {InvalidJson,
     JsonObject([content |-> <<"q1">>]),
     JsonObject([type |-> "text_input"]),
     JsonObject([type |-> "emotion_update"]),
     JsonObject([type |-> "ping", content |-> <<"q1">>, emotion |-> "sad"])}
    \cup {TextInput(q) : q \in Questions}
    \cup {EmotionUpdate(e) : e \in Emotions}

Retrievals ==
    {Retrieval(TRUE, <<>>), Retrieval(FALSE, <<>>),
     Retrieval(FALSE, << <<"p1">>, <<"p2">> >>)}

HttpOutcomes ==
    {Http("content", r) : r \in Replies}
    \cup {Http(k, <<>>) : k \in HttpFailureKinds}

\* The websockets are numbered in the order in which they connect, and the
\* identities in the order in which id() first gives them: a new websocket
\* gets the identity of a collected one, or the first identity not yet used.
NextConn == CHOOSE c \in Conns \cup {NConns + 1} :
                /\ c \in Conns => pc[c] = "new"
                /\ \A d \in 1..(c - 1) : pc[d] # "new"

UsedIds == {conn_id[d] : d \in {e \in Conns : pc[e] # "new"}}

NextIds ==
    (UsedIds \ LiveIds)
    \cup {ToString(a) : a \in {b \in 1..NConns :
              /\ ToString(b) \notin UsedIds
              /\ \A b2 \in 1..(b - 1) : ToString(b2) \in UsedIds}}

\* Spec: several connections, every kind of message and of fault, few messages.
Next ==
    \E c \in Conns :
        \/ \E a \in NextIds : c = NextConn /\ accept(c, a)
        \/ \E msg \in Messages :
              /\ nmsgs < MaxMsgs
              /\ dispatch(msg) = "raise" => faults < MaxFaults
              /\ receive_sent(c, msg)
        \/ receive_disconnect(c)
        \/ \E r \in Retrievals :
              /\ off_nominal_retrieval(r) => faults < MaxFaults
              /\ retrieve_and_append(c, r)
        \/ \E http \in HttpOutcomes :
              /\ off_nominal_http(http) => faults < MaxFaults
              /\ call_llm(c, http)
        \/ truncate_and_store(c)
        \/ \E ok \in BOOLEAN :
              /\ off_nominal_speech(c, ok) => faults < MaxFaults
              /\ speech(c, ok)
        \/ send_json(c)
        \/ faults < MaxFaults /\ client_disconnect(c)

Spec == Init /\ [][Next]_vars

\* SpecHist: one connection and a long run of text_input messages, the k-th
\* carrying the text "k", so that every entry of the history is told apart.
HistRetrievals == {Retrieval(TRUE, <<>>), Retrieval(FALSE, << <<"p1">> >>)}

HistHttpOutcomes == {Http("content", <<"hello">>), Http("bad_status", <<>>)}

NextHist ==
    \/ accept(1, "1")
    \/ /\ nmsgs < MaxTurns
       /\ receive_sent(1, TextInput(<<ToString(nmsgs + 1)>>))
    \/ \E r \in HistRetrievals :
          /\ off_nominal_retrieval(r) => faults < MaxHistFaults
          /\ retrieve_and_append(1, r)
    \/ \E http \in HistHttpOutcomes :
          /\ off_nominal_http(http) => faults < MaxHistFaults
          /\ call_llm(1, http)
    \/ truncate_and_store(1)
    \/ \E ok \in BOOLEAN :
          /\ off_nominal_speech(1, ok) => faults < MaxHistFaults
          /\ speech(1, ok)
    \/ send_json(1)

SpecHist == Init /\ [][NextHist]_vars

\* SpecOrder: one connection whose client sends frames whenever it likes, also
\* while the task is handling an earlier one; the k-th frame sent is told
\* apart by its text "k".
narrived == Len(arrived[1])

OrderMessages ==
    {TextInput(<<ToString(narrived + 1)>>), EmotionUpdate("sad"), InvalidJson}

OrderRetrievals == {Retrieval(TRUE, <<>>), Retrieval(FALSE, << <<"p1">> >>)}

OrderHttpOutcomes == {Http("content", <<"hello">>), Http("request_error", <<>>)}

NextOrder ==
    \/ accept(1, "1")
    \/ \E msg \in OrderMessages :
          /\ narrived < MaxArrivals
          /\ dispatch(msg) = "raise" => faults < MaxOrderFaults
          /\ client_send(1, msg)
    \/ receive_queued(1)
    \/ receive_disconnect(1)
    \/ \E r \in OrderRetrievals :
          /\ off_nominal_retrieval(r) => faults < MaxOrderFaults
          /\ retrieve_and_append(1, r)
    \/ \E http \in OrderHttpOutcomes :
          /\ off_nominal_http(http) => faults < MaxOrderFaults
          /\ call_llm(1, http)
    \/ truncate_and_store(1)
    \/ \E ok \in BOOLEAN :
          /\ off_nominal_speech(1, ok) => faults < MaxOrderFaults
          /\ speech(1, ok)
    \/ send_json(1)
    \/ faults < MaxOrderFaults /\ client_disconnect(1)

SpecOrder == Init /\ [][NextOrder]_vars

\* SpecEmotion: connections that exchange text_input and response, and
\* trigger_emotion_interaction called for any registered websocket, with any
\* label, whenever the event loop is free.
InteractionEmotions == {"sad", "angry", "happy"}

InteractionHttpOutcomes == {Http("content", <<"are-you-ok">>), Http("bad_status", <<>>)}

NextEmotion ==
    \E c \in Conns :
        \/ \E a \in NextIds : c = NextConn /\ accept(c, a)
        \/ /\ nmsgs < MaxEmotionMsgs
           /\ receive_sent(c, TextInput(<<"q1">>))
        \/ receive_disconnect(c)
        \/ retrieve_and_append(c, Retrieval(FALSE, << <<"p1">> >>))
        \/ call_llm(c, Http("content", <<"hello">>))
        \/ truncate_and_store(c)
        \/ speech(c, TRUE)
        \/ send_json(c)
        \/ faults < MaxEmotionFaults /\ client_disconnect(c)
        \/ \E emotion \in InteractionEmotions, http \in InteractionHttpOutcomes,
              ok \in BOOLEAN :
              /\ interaction.calls < MaxCalls
              /\ off_nominal_interaction(emotion, http, ok) => faults < MaxEmotionFaults
              /\ trigger_emotion_interaction(c, emotion, http, ok)

SpecEmotion == Init /\ [][NextEmotion]_vars

\* SpecTTS: a run of generate_speech calls on one engine with a small cache,
\* for texts of which one differs from another only by an emoji.
SpeechTexts == {<<"a">>, <<"b">>, <<"c">>, <<"a", "<emoji>">>}

NextTTS ==
    \E text \in SpeechTexts, ok \in BOOLEAN :
        /\ Len(tts.calls) < MaxSpeechCalls
        /\ generate_speech_call(text, ok)

SpecTTS == Init /\ [][NextTTS]_vars

\* SpecLLM: one call of generate_response for every history of up to
\* MaxHistoryLen entries of either role (the i-th with the content "i"), well
\* formed or with a last entry that has no role, and every outcome of the
\* request.
RoleSequences == UNION {[1..k -> {"user", "assistant"}] : k \in 0..MaxHistoryLen}

HistoryOfRoles(roles) == [i \in 1..Len(roles) |-> Entry(roles[i], <<ToString(i)>>)]

WithoutLastRole(history) ==
    [i \in 1..Len(history) |->
        IF i = Len(history) THEN [content |-> history[i].content]
        ELSE history[i]]

NextLLM ==
    /\ llm_call = NoCall
    /\ \E roles \in RoleSequences, broken \in BOOLEAN, http \in HttpOutcomes :
        LET history == HistoryOfRoles(roles)
        IN  /\ broken => history # <<>>
            /\ generate_response_call(
                   <<"prompt">>,
                   IF broken THEN WithoutLastRole(history) ELSE history,
                   http)

SpecLLM == Init /\ [][NextLLM]_vars

(***************************************************************************)
(* core/unity_client.py: UnityClient, one connection.  disconnect() and    *)
(* the receive_messages task run on one event loop and give way to each    *)
(* other at their awaits: close(), recv() and sleep().  The callbacks are  *)
(* counted.                                                                *)
(***************************************************************************)
UnityOthers ==
    <<active_connections, conversation_history, emotion_state, cache, pc,
      conn_id, data, final_prompt, response_text, audio_data, connected,
      sent, llm_request, appended, emotion_log, turn, exit_cause, handled,
      received, faults, inbox, arrived, log, interaction, tts, llm_call>>

\* lines 145-154 and 162-168: what the loop does with one frame
UnityFrames == {"response", "emotion_interaction", "unknown", "invalid"}

\* line 140: while self.running
loop_test(running) == IF running THEN "recv" ELSE "done"

\* lines 47-70: connect()
unity_connect(ok) ==
    /\ unity.websocket = "None"
    /\ unity.on_connect = 0
    /\ unity.attempts < MaxAttempts
    /\ unity' =
           IF ok
           THEN [unity EXCEPT !.websocket = "ws", !.running = TRUE,
                              !.transport = "open", !.on_connect = @ + 1,
                              !.attempts = @ + 1]
           ELSE [unity EXCEPT !.on_error = @ + 1, !.attempts = @ + 1]
    /\ UNCHANGED UnityOthers

\* lines 131-140: the task of receive_messages starts and reaches the loop
receive_messages_start ==
    /\ unity.receive_pc = "idle"
    /\ unity.attempts > 0
    /\ unity' =
           [unity EXCEPT !.receive_pc =
               IF unity.websocket = "None" THEN "done"
               ELSE loop_test(unity.running)]
    /\ UNCHANGED UnityOthers

\* The backend sends a frame.
backend_send(frame) ==
    /\ unity.transport = "open"
    /\ unity.served < MaxServed
    /\ unity' = [unity EXCEPT !.pending = Append(@, frame), !.served = @ + 1]
    /\ UNCHANGED UnityOthers

\* The backend closes the connection.
backend_close ==
    /\ unity.transport = "open"
    /\ unity' = [unity EXCEPT !.transport = "closed"]
    /\ UNCHANGED UnityOthers

\* lines 142-154 and 162-168: recv() returns a frame and the loop handles it
receive_frame ==
    /\ unity.receive_pc = "recv"
    /\ unity.pending # <<>>
    /\ LET frame == Head(unity.pending)
           rest == [unity EXCEPT !.pending = Tail(@)]
       IN  unity' =
             CASE frame = "response" ->
                    [rest EXCEPT !.on_response = @ + 1,
                                 !.receive_pc = loop_test(unity.running)]
               [] frame = "emotion_interaction" ->
                    [rest EXCEPT !.on_emotion_interaction = @ + 1,
                                 !.receive_pc = loop_test(unity.running)]
               [] frame = "unknown" ->
                    [rest EXCEPT !.receive_pc = loop_test(unity.running)]
               [] OTHER ->
                    [rest EXCEPT !.on_error = @ + 1, !.receive_pc = "sleep"]
    /\ UNCHANGED UnityOthers

\* line 168: the sleep after an error is over
receive_wake ==
    /\ unity.receive_pc = "sleep"
    /\ unity' = [unity EXCEPT !.receive_pc = loop_test(unity.running)]
    /\ UNCHANGED UnityOthers

\* lines 155-161: recv() raises ConnectionClosed
receive_closed ==
    /\ unity.receive_pc = "recv"
    /\ unity.pending = <<>>
    /\ unity.transport = "closed"
    /\ unity' =
           [unity EXCEPT !.running = FALSE, !.on_disconnect = @ + 1,
                         !.receive_pc = "done"]
    /\ UNCHANGED UnityOthers

\* lines 72-75: disconnect() up to the await of close()
disconnect_begin ==
    /\ unity.disconnect_pc = "idle"
    /\ unity.websocket # "None"
    /\ unity' = [unity EXCEPT !.disconnect_pc = "close",
                              !.transport = "closed"]
    /\ UNCHANGED UnityOthers

\* lines 75-81: close() has returned
disconnect_finish(u) ==
    [u EXCEPT !.websocket = "None", !.running = FALSE,
              !.on_disconnect = @ + 1, !.disconnect_pc = "idle"]

disconnect_end ==
    /\ unity.disconnect_pc = "close"
    /\ unity' = disconnect_finish(unity)
    /\ UNCHANGED UnityOthers

\* SpecUnity: one client, one connection, few frames.
NextUnity ==
    \/ \E ok \in BOOLEAN : unity_connect(ok)
    \/ receive_messages_start
    \/ \E frame \in UnityFrames : backend_send(frame)
    \/ backend_close
    \/ receive_frame
    \/ receive_wake
    \/ receive_closed
    \/ disconnect_begin
    \/ disconnect_end

SpecUnity == Init /\ [][NextUnity]_vars

(***************************************************************************)
(* The properties.                                                         *)
(***************************************************************************)
\* The history stored for the identity of websocket c.
HistoryOf(c) == conversation_history[conn_id[c]]

\* The websocket of identity id is between its first append and the store
\* of the truncated list.
MidTurn(id) ==
    \E c \in Conns : conn_id[c] = id /\ pc[c] \in {"llm", "truncate"}

\* C1, as stated: the stored history holds at most 20 entries after every
\* single mutation, the append of the user entry and the append of the
\* assistant entry included.
C1_AtMost20AfterEachAppend ==
    \A id \in DOMAIN conversation_history :
        Len(conversation_history[id]) <= HistoryLimit

\* C1, amended: the stored history holds at most 20 entries whenever the
\* handling of a text_input has passed the truncation (in particular whenever
\* the task waits for a message); after the append of the user entry it holds
\* at most 21 and after the append of the assistant entry at most 22.
C1_AtMost20OnceTruncated ==
    \A c \in Conns :
        pc[c] \notin {"new"} =>
            /\ pc[c] = "llm" => Len(HistoryOf(c)) <= HistoryLimit + 1
            /\ pc[c] = "truncate" => Len(HistoryOf(c)) <= HistoryLimit + 2
            /\ ~MidTurn(conn_id[c]) => Len(HistoryOf(c)) <= HistoryLimit

\* C1, witness: a truncation has just dropped entries.
C1_TruncationActed ==
    \E c \in Conns :
        /\ pc[c] = "tts"
        /\ Len(appended[conn_id[c]]) = HistoryLimit + 2
        /\ Len(HistoryOf(c)) = HistoryLimit

Alternates(h) ==
    \A i \in 1..Len(h) :
        h[i].role = (IF i % 2 = 1 THEN "user" ELSE "assistant")

\* C2: the stored history alternates user, assistant, user, ... starting with
\* a user entry, in every state, also once the truncation has dropped entries.
C2_HistoryAlternates ==
    \A id \in DOMAIN conversation_history :
        Alternates(conversation_history[id])

\* C2, witness: entries have been dropped twice and the history that is left
\* starts with a user entry.
C2_AlternatesAfterDrops ==
    \E c \in Conns :
        /\ pc[c] = "recv"
        /\ Len(appended[conn_id[c]]) >= HistoryLimit + 4
        /\ Len(HistoryOf(c)) = HistoryLimit
        /\ HistoryOf(c)[1].role = "user"

\* C3: once n text_input messages have been answered on a connection, the
\* stored history is the last min(2n, 20) of the 2n entries appended, in
\* order; from the 11th message on its length is 20 and the first entry ever
\* appended is gone.
C3_KeepsLastOfAppended ==
    \A c \in Conns :
        pc[c] = "recv" =>
            LET id == conn_id[c]
                n == handled[id]
                all == appended[id]
                h == conversation_history[id]
            IN  /\ Len(all) = 2 * n
                /\ h = LastN(all, Min(2 * n, HistoryLimit))
                /\ 2 * n > HistoryLimit =>
                      /\ Len(h) = HistoryLimit
                      /\ \A i \in 1..Len(h) : h[i] # all[1]

\* C3, witness: 21 messages have been answered.
C3_TwentyOneAnswered ==
    \E c \in Conns :
        /\ pc[c] = "recv"
        /\ handled[conn_id[c]] = 21
        /\ Len(HistoryOf(c)) = HistoryLimit

\* The history that generate_response was given, while the task is at the
\* truncation: the stored one without the reply appended since.
HistoryAtCall(c) == SubSeq(HistoryOf(c), 1, Len(HistoryOf(c)) - 1)

\* C4, as stated: the messages posted are the system persona followed by the
\* last 20 entries of the history, the last of them the augmented prompt.
C4_PostsLast20 ==
    \A c \in Conns :
        pc[c] = "truncate" =>
            /\ llm_request[c] =
                   <<Entry("system", character_persona)>>
                       \o LastN(HistoryAtCall(c), HistoryLimit)
            /\ llm_request[c][Len(llm_request[c])] = Entry("user", final_prompt[c])

\* C4, amended: the messages posted are the system persona followed by the
\* last 10 entries of the history, the last of them the augmented prompt just
\* appended; the prompt is not added again as a further message.
C4_PostsLast10 ==
    \A c \in Conns :
        pc[c] = "truncate" =>
            /\ llm_request[c] =
                   <<Entry("system", character_persona)>>
                       \o LastN(HistoryAtCall(c), LLMWindow)
            /\ llm_request[c][Len(llm_request[c])] = Entry("user", final_prompt[c])
            /\ Len(llm_request[c]) = 1 + Min(Len(HistoryAtCall(c)), LLMWindow)

\* C4, witness: the model has been called on a history of more than 10
\* entries.
C4_CalledOnLongHistory ==
    \E c \in Conns :
        /\ pc[c] = "truncate"
        /\ Len(HistoryAtCall(c)) > LLMWindow
        /\ Len(llm_request[c]) = LLMWindow + 1

Last(s) == s[Len(s)]

\* The response message send_json carries for the current reply of c.
ResponseOf(c) ==
    [type |-> "response", text |-> response_text[c], audio |-> audio_data[c]]

\* C5: when the call to the model fails during a text_input, the reply is one
\* of the fixed apology strings, it is appended to the history as the
\* assistant entry of the turn, the task is not ended by the failure, and
\* when the turn is over exactly one response has been sent, carrying the
\* apology.
C5_LLMFailureStillAnswers ==
    \A c \in Conns :
        turn[c].llm = "fail" =>
            /\ response_text[c] \in Apologies
            /\ exit_cause[c] \in {"none", "disconnect"}
            /\ pc[c] # "closed" =>
                   Last(HistoryOf(c)) = Entry("assistant", response_text[c])
            /\ pc[c] \in {"truncate", "tts", "send"} => turn[c].responses = 0
            /\ pc[c] = "recv" =>
                   /\ turn[c].responses = 1
                   /\ sent[c] # <<>>
                   /\ Last(sent[c]) = ResponseOf(c)

\* C5, witness: a turn whose call to the model failed is over, its response
\* sent.
C5_ApologySent ==
    \E c \in Conns :
        /\ turn[c].llm = "fail"
        /\ pc[c] = "recv"
        /\ Last(sent[c]).text \in Apologies

\* C6: when the retriever raises or returns no passage, the exchange is not
\* aborted: the retrieved context is empty, the model is called and the task
\* stays in its loop (only the transport can end it).
C6_RetrievalFailsOpen ==
    \A c \in Conns :
        turn[c].retrieval \in {"raise", "empty"} =>
            /\ exit_cause[c] # "exception"
            /\ pc[c] # "retrieve"
            /\ final_prompt[c] = prompt_template(<<>>, data[c].obj.content)

\* C7: when the synthesis fails, generate_speech returns the empty string,
\* the task is not ended by the failure, and when the turn is over the
\* response has been sent with the reply text and empty audio, the task
\* waiting for the next message.
C7_SynthesisFailureNotFatal ==
    \A c \in Conns :
        turn[c].tts = "fail" =>
            /\ audio_data[c] = <<>>
            /\ exit_cause[c] \in {"none", "disconnect"}
            /\ pc[c] \in {"send", "recv", "closed"}
            /\ pc[c] = "recv" =>
                   /\ turn[c].responses = 1
                   /\ Last(sent[c]) =
                          [type |-> "response", text |-> response_text[c],
                           audio |-> <<>>]

\* C7, witness: a response with a reply text and no audio has been sent, the
\* task waiting for the next message.
C7_TextOnlyResponseSent ==
    \E c \in Conns :
        /\ turn[c].tts = "fail"
        /\ pc[c] = "recv"
        /\ Last(sent[c]).audio = <<>>
        /\ Last(sent[c]).text # <<>>

\* Not valid JSON, no type tag, or a text_input without content.
IsMalformed(msg) ==
    \/ msg.json = "invalid"
    \/ /\ msg.json = "object"
       /\ \/ "type" \notin DOMAIN msg.obj
          \/ msg.obj.type = "text_input" /\ "content" \notin DOMAIN msg.obj

\* C8: after a malformed message the task is still in its receive loop (only
\* the transport can end it).
C8_MalformedIgnored ==
    \A c \in Conns :
        IsMalformed(data[c]) => pc[c] = "recv" \/ exit_cause[c] = "disconnect"

\* A well-formed message of a type the loop has no branch for.
IsUnknownType(msg) ==
    /\ msg.json = "object"
    /\ "type" \in DOMAIN msg.obj
    /\ msg.obj.type \notin {"text_input", "emotion_update"}

\* Websocket c receives a message in this step.
Receives(c) == received'[c] = received[c] + 1

\* C9: receiving a message of an unknown type sends nothing, changes no
\* history and no emotional state, and leaves the task waiting for the next
\* message.
C9_UnknownTypeIgnored ==
    [][\A c \in Conns :
          Receives(c) /\ IsUnknownType(data'[c]) =>
              /\ sent' = sent
              /\ conversation_history' = conversation_history
              /\ emotion_state' = emotion_state
              /\ active_connections' = active_connections
              /\ pc'[c] = "recv"]_vars

\* C9, witness: a message of an unknown type was received after a text_input
\* had been answered, and the task waits for the next message.
C9_UnknownTypeReceived ==
    \E c \in Conns :
        /\ IsUnknownType(data[c])
        /\ pc[c] = "recv"
        /\ HistoryOf(c) # <<>>
        /\ sent[c] # <<>>

IsEmotionUpdate(msg) ==
    /\ msg.json = "object"
    /\ "type" \in DOMAIN msg.obj
    /\ msg.obj.type = "emotion_update"
    /\ "emotion" \in DOMAIN msg.obj

\* C10: receiving emotion_update with emotion E makes E the emotional state
\* of the connection, whatever it was, changes no other connection's state,
\* sends nothing and changes no history; so the state is always the last
\* label received.
C10_EmotionUpdateOverwrites ==
    /\ [][\A c \in Conns :
            Receives(c) /\ IsEmotionUpdate(data'[c]) =>
                /\ conn_id[c] \in DOMAIN emotion_state'
                /\ emotion_state'[conn_id[c]] = data'[c].obj.emotion
                /\ \A k \in DOMAIN emotion_state \ {conn_id[c]} :
                       k \in DOMAIN emotion_state'
                       /\ emotion_state'[k] = emotion_state[k]
                /\ sent' = sent
                /\ conversation_history' = conversation_history
                /\ pc'[c] = "recv"]_vars
    /\ [](\A id \in DOMAIN emotion_log :
            id \in DOMAIN emotion_state
            /\ emotion_state[id] = Last(emotion_log[id]))

\* C10, witness: a second, different label has replaced the first.
C10_LabelReplaced ==
    \E id \in DOMAIN emotion_log :
        /\ Len(emotion_log[id]) >= 2
        /\ emotion_log[id][1] # emotion_log[id][2]
        /\ emotion_state[id] = emotion_log[id][2]

\* The text_input frames among those of a log.
TextCount(l) == Cardinality({i \in 1..Len(l) : dispatch(l[i]) = "text_input"})

\* The positions of a task that is handling a text_input.
PipelinePcs == {"retrieve", "llm", "truncate", "tts", "send"}

\* C11: on one connection the frames are handled in the order in which the
\* client sent them; when the handling of a frame begins, the response to
\* every earlier text_input has been sent; and while a text_input is being
\* handled it is the only one of its connection without a response.
C11_InOrderNoPipelining ==
    /\ [](\A c \in Conns :
            /\ Len(log[c]) <= Len(arrived[c])
            /\ log[c] = SubSeq(arrived[c], 1, Len(log[c]))
            /\ pc[c] \in PipelinePcs => Len(sent[c]) = TextCount(log[c]) - 1)
    /\ [][\A c \in Conns : Receives(c) => Len(sent[c]) = TextCount(log[c])]_vars

\* The second text_input is being handled, the first has its response, and
\* a third frame, sent meanwhile, is waiting.
C11_ThirdWaitsForSecond ==
    \E c \in Conns :
        /\ pc[c] = "llm"
        /\ TextCount(log[c]) = 2
        /\ Len(sent[c]) = 1
        /\ inbox[c] # <<>>

\* The positions of a task inside the retrieval, model or synthesis call.
BlockingCallPcs == {"retrieve", "llm", "tts"}

\* C12: while the task of one connection is inside its retrieval, model or
\* synthesis call, the task of any other connection that waits in
\* receive_text on an open transport can take a frame.
C12_OthersNotBlocked ==
    \A c, d \in Conns :
        (c # d /\ pc[c] \in BlockingCallPcs /\ pc[d] = "recv" /\ connected[d])
            => ENABLED (\E msg \in Messages : receive_sent(d, msg))

\* The task of websocket c takes this step.
Acts(c) == pc'[c] # pc[c] \/ received'[c] # received[c]

\* The task of websocket c is in its loop.
InLoop(c) == pc[c] \notin {"new", "closed"}

\* C13: a step of the task of connection A, whatever it is and however the
\* tasks interleave, leaves the history and the emotional state of every
\* other connection B whose task is in its loop as they were, and leaves B's
\* task where it was and B registered, also when the step ends A's task on
\* a fault.
C13_OnlyOwnSession ==
    [][\A a, b \in Conns :
          (a # b /\ Acts(a) /\ InLoop(b)) =>
              LET id == conn_id[b]
              IN  /\ id \in DOMAIN conversation_history'
                  /\ conversation_history'[id] = conversation_history[id]
                  /\ (id \in DOMAIN emotion_state) = (id \in DOMAIN emotion_state')
                  /\ id \in DOMAIN emotion_state =>
                         emotion_state'[id] = emotion_state[id]
                  /\ pc'[b] = pc[b]
                  /\ exit_cause'[b] = exit_cause[b]
                  /\ \E i \in 1..Len(active_connections') :
                         active_connections'[i] = b]_vars

\* The task of A has ended on a fault while B, with a recorded emotional
\* state of its own, goes on.
C13_FaultBesideLiveSession ==
    \E a, b \in Conns :
        /\ a # b
        /\ exit_cause[a] = "exception"
        /\ pc[b] = "recv"
        /\ conn_id[b] \in DOMAIN emotion_state
        /\ \E i \in 1..Len(active_connections) : active_connections[i] = b

\* C14: a task that ends, ends in one of its except clauses (nothing leaves
\* websocket_endpoint as an exception), also when the transport goes away
\* while a text_input is in flight; the step that ends a task leaves the
\* session store as it was; and no step of any task takes an identity out of
\* the histories or out of the emotional states.
C14_DisconnectCaughtSessionKept ==
    /\ [](\A c \in Conns :
            /\ exit_cause[c] # "uncaught"
            /\ pc[c] = "closed" =>
                   /\ exit_cause[c] \in {"disconnect", "exception"}
                   /\ conn_id[c] \in DOMAIN conversation_history)
    /\ [][/\ DOMAIN conversation_history \subseteq DOMAIN conversation_history'
          /\ DOMAIN emotion_state \subseteq DOMAIN emotion_state'
          /\ \A c \in Conns :
                (pc[c] # "closed" /\ pc'[c] = "closed") =>
                    /\ conversation_history' = conversation_history
                    /\ emotion_state' = emotion_state]_vars

\* The client went away while a text_input was in flight: the task found
\* out at the send, ended without a response, and the two entries of the
\* exchange are still in the store.
C14_DroppedAtSendSessionKept ==
    \E c \in Conns :
        /\ pc[c] = "closed"
        /\ exit_cause[c] = "disconnect"
        /\ turn[c].tts # "none"
        /\ turn[c].responses = 0
        /\ Len(conversation_history[conn_id[c]]) = 2

\* C15: a websocket has been sent at most one message for each text_input
\* its task took, every one of them a response, and exactly one for each
\* whenever the task is back in receive_text; a step sends at most one
\* message, from the send of the task itself on an open transport; and once
\* the client is gone nothing is sent to the websocket any more, so that a
\* dropped response reaches neither it nor a later websocket of the client.
C15_AtMostOneResponse ==
    /\ [](\A c \in Conns :
            /\ Len(sent[c]) <= TextCount(log[c])
            /\ pc[c] = "recv" => Len(sent[c]) = TextCount(log[c])
            /\ \A i \in 1..Len(sent[c]) : sent[c][i].type = "response")
    /\ [][\A c \in Conns :
            /\ Len(sent'[c]) <= Len(sent[c]) + 1
            /\ SubSeq(sent'[c], 1, Len(sent[c])) = sent[c]
            /\ sent'[c] # sent[c] => (pc[c] = "send" /\ connected[c])
            /\ ~connected[c] => sent'[c] = sent[c]]_vars

\* The response to a text_input was dropped at the send; the client came
\* back on a new websocket, which got the same identity, and its text_input
\* got the one response of its own.
C15_DroppedThenReconnected ==
    \E c, d \in Conns :
        /\ c # d
        /\ exit_cause[c] = "disconnect"
        /\ TextCount(log[c]) = 1
        /\ sent[c] = <<>>
        /\ conn_id[d] = conn_id[c]
        /\ pc[d] = "recv"
        /\ TextCount(log[d]) = 1
        /\ Len(sent[d]) = 1

\* No earlier websocket had the identity of websocket c (the websockets are
\* numbered in the order in which they connect).
Fresh(c) == \A d \in 1..(c - 1) : conn_id[d] # conn_id[c]

\* The text of the one text_input in a log that holds exactly one.
OnlyQuestion(l) ==
    l[CHOOSE i \in 1..Len(l) : dispatch(l[i]) = "text_input"].obj.content

\* C16: once the task of a connection with a new identity has handled one
\* text_input and is back in receive_text, it has sent exactly one message,
\* a response whose text is not empty, and the history of the connection is
\* exactly a user entry followed by an assistant entry: the user entry
\* holds the prompt built from the retrieved passages and the question, not
\* the question itself, and the assistant entry holds the text of the
\* response.
C16_FirstExchange ==
    \A c \in Conns :
        (InLoop(c) /\ Fresh(c) /\ pc[c] = "recv" /\ TextCount(log[c]) = 1) =>
            LET question == OnlyQuestion(log[c])
                history == HistoryOf(c)
            IN  /\ Len(sent[c]) = 1
                /\ sent[c][1].type = "response"
                /\ sent[c][1].text # <<>>
                /\ Len(history) = 2
                /\ history[1].role = "user"
                /\ history[1].content # question
                /\ \E r \in Retrievals :
                      /\ ~r.raises
                      /\ history[1].content =
                             prompt_template(join_chunks(r.docs), question)
                /\ history[2] = Entry("assistant", sent[c][1].text)

\* A connection with a new identity has had its one text_input answered
\* from retrieved passages.
C16_FirstExchangeDone ==
    \E c \in Conns :
        /\ Fresh(c)
        /\ pc[c] = "recv"
        /\ TextCount(log[c]) = 1
        /\ turn[c].retrieval = "docs"
        /\ Len(sent[c]) = 1

\* The last frame websocket c took is an emotion_update that carries a
\* distress label other than the one recorded before it for the identity.
DistressTransition(c) ==
    /\ IsEmotionUpdate(data[c])
    /\ data[c].obj.emotion \in DistressEmotions
    /\ conn_id[c] \in DOMAIN emotion_log
    /\ LET l == emotion_log[conn_id[c]]
       IN  /\ l # <<>>
           /\ Last(l) = data[c].obj.emotion
           /\ Len(l) >= 2 => l[Len(l) - 1] # Last(l)

\* The emotion_interaction messages among those sent to websocket c.
Interactions(c) ==
    {i \in 1..Len(sent[c]) : sent[c][i].type = "emotion_interaction"}

\* C17, as claimed: once the task has handled an emotion_update that is a
\* transition to sad or angry and waits for the next frame, the last message
\* sent to the websocket is an emotion_interaction for that emotion.
C17_DistressUpdateAnswered ==
    \A c \in Conns :
        (pc[c] = "recv" /\ DistressTransition(c)) =>
            /\ sent[c] # <<>>
            /\ Last(sent[c]).type = "emotion_interaction"
            /\ Last(sent[c]).emotion = data[c].obj.emotion

\* C17, amended: the step that takes an emotion_update, a transition to sad
\* or angry included, sends nothing, and no emotion_interaction is ever sent
\* to any websocket.
C17_DistressUpdateOnlyStored ==
    /\ [][\A c \in Conns :
            (Receives(c) /\ IsEmotionUpdate(data'[c])) => sent'[c] = sent[c]]_vars
    /\ [](\A c \in Conns : Interactions(c) = {})

\* A transition to sad has been handled: the label is recorded and nothing
\* was sent.
C17_SadRecordedNothingSent ==
    \E c \in Conns :
        /\ pc[c] = "recv"
        /\ DistressTransition(c)
        /\ emotion_state[conn_id[c]] = "sad"
        /\ sent[c] = <<>>

\* The state transitions in a sequence of labels: the labels that differ
\* from the one before (the first differs from no recorded state).
TransitionCount(l) ==
    Cardinality({i \in 1..Len(l) : i = 1 \/ l[i - 1] # l[i]})

\* The emotion_interaction messages sent to the websockets of identity id.
RECURSIVE InteractionCount(_, _)
InteractionCount(id, n) ==
    IF n = 0 THEN 0
    ELSE (IF conn_id[n] = id THEN Cardinality(Interactions(n)) ELSE 0)
         + InteractionCount(id, n - 1)

\* C18: for each identity the emotion_interaction messages sent are at most
\* as many as the state transitions among the emotion_update labels received
\* under it, and the step that takes an emotion_update repeating the recorded
\* label sends nothing.
C18_AtMostOnePerTransition ==
    /\ [](\A id \in DOMAIN emotion_log :
            InteractionCount(id, NConns) <= TransitionCount(emotion_log[id]))
    /\ [][\A c \in Conns :
            (/\ Receives(c)
             /\ IsEmotionUpdate(data'[c])
             /\ recorded_emotion(conn_id[c]) = data'[c].obj.emotion)
                => sent'[c] = sent[c]]_vars

\* The same distress label was received twice in a row under one identity.
C18_RepeatedLabelReceived ==
    \E id \in DOMAIN emotion_log :
        /\ emotion_log[id] = <<"sad", "sad">>
        /\ InteractionCount(id, NConns) = 0

\* This step is a call of trigger_emotion_interaction.
Triggered == interaction'.calls = interaction.calls + 1

\* C19: a call of trigger_emotion_interaction, whether its message is sent
\* or its send fails, leaves the history of every identity as it was, and
\* when it calls the model it posts the persona and its own prompt only,
\* nothing of the history of the websocket it is called for.
C19_InteractionLeavesHistories ==
    [][Triggered =>
          /\ conversation_history' = conversation_history
          /\ appended' = appended
          /\ interaction'.llm_called =>
                 interaction'.llm_request =
                     <<Entry("system", character_persona),
                       Entry("user", emotion_prompt(interaction'.emotion))>>]_vars

\* An interaction was sent to a websocket whose history holds an exchange.
C19_SentBesideHistory ==
    /\ interaction.calls >= 1
    /\ interaction.llm_called
    /\ interaction.sent
    /\ Len(conversation_history[conn_id[interaction.websocket]]) = 2

\* C20: a call of trigger_emotion_interaction with a label other than sad
\* and angry calls neither the model nor the synthesis, sends nothing and
\* changes nothing of the program's state.
C20_UnknownEmotionNoEffect ==
    [][(Triggered /\ interaction'.emotion \notin DistressEmotions) =>
          /\ ~interaction'.llm_called
          /\ ~interaction'.tts_called
          /\ ~interaction'.sent
          /\ interaction'.llm_request = <<>>
          /\ UNCHANGED <<active_connections, conversation_history,
                         emotion_state, cache, pc, conn_id, data,
                         final_prompt, response_text, audio_data, connected,
                         sent, llm_request, exit_cause>>]_vars

\* trigger_emotion_interaction was called with happy.
C20_CalledWithHappy ==
    /\ interaction.calls >= 1
    /\ interaction.emotion = "happy"
    /\ ~interaction.llm_called
    /\ pc[interaction.websocket] # "new"

\* C21: after any run of generate_speech calls the cache of the engine holds
\* at most as many entries as the cache_size it was constructed with.
C21_CacheWithinSize == Len(cache) <= SmallCacheSize

\* More keys have entered the cache than it may hold, and it is full.
C21_CacheTrimmed ==
    /\ Len(tts.insertions) > SmallCacheSize
    /\ Len(cache) = SmallCacheSize

\* The keys of the cache, oldest first.
CacheKeys == [i \in 1..Len(cache) |-> cache[i].text]

\* This step is a call of generate_speech on its own.
SpeechCalled == Len(tts.calls') = Len(tts.calls) + 1

\* C22: the cache holds, in the order in which they entered it, the last
\* cache_size keys that entered it (a key enters when it is stored while
\* absent), so the keys trimmed are the ones that entered earliest; and a
\* call answered from the cache leaves the cache, order included, as it was.
C22_InsertionOrderEviction ==
    /\ [](CacheKeys = LastN(tts.insertions, SmallCacheSize))
    /\ [][(SpeechCalled /\ Last(tts.calls').hit) => cache' = cache]_vars

\* The oldest key was read from the cache, and then trimmed all the same
\* when a new key entered: <<"a">>, <<"b">>, a hit on <<"a">>, <<"c">>.
C22_HitThenEvicted ==
    /\ Len(tts.calls) = 4
    /\ tts.calls[3].hit
    /\ tts.calls[3].text = tts.insertions[1]
    /\ Len(tts.insertions) = 3
    /\ ~cache_has(cache, tts.insertions[1])

\* The template with nothing in the place of the passages.
TemplateAround(question) ==
    <<"T1:answer-from-the-following-data:", "T2:the-user's-question-is:">>
        \o question \o <<"T3:answer-from-the-data-or-refer-to-a-teacher">>

\* C23: when the retriever returned no document for a text_input, then as
\* long as the task of the connection runs the prompt built is the three
\* fixed parts of the template around the literal question, with nothing
\* where the passages go; that prompt is the user entry appended to the
\* history, and it is the last message posted to the model.
C23_EmptyRetrievalPrompt ==
    \A c \in Conns :
        (InLoop(c) /\ turn[c].retrieval = "empty") =>
            LET prompt == TemplateAround(data[c].obj.content)
            IN  /\ final_prompt[c] = prompt
                /\ pc[c] = "llm" => Last(HistoryOf(c)) = Entry("user", prompt)
                /\ turn[c].llm # "none" =>
                       /\ Last(llm_request[c]) = Entry("user", prompt)
                       /\ Last(appended[conn_id[c]]).role = "assistant"
                       /\ appended[conn_id[c]][Len(appended[conn_id[c]]) - 1]
                              = Entry("user", prompt)

\* The model was called for a text_input for which nothing was retrieved.
C23_CalledWithoutPassages ==
    \E c \in Conns :
        /\ turn[c].retrieval = "empty"
        /\ turn[c].llm = "ok"
        /\ Len(llm_request[c]) = 2

\* C24: when a call of generate_speech has synthesized its text with
\* success, the next call, if it is for the same text, is answered from the
\* cache with the same audio and without a synthesis, whatever the text.
C24_RepeatServedFromCache ==
    \A i \in 1..(Len(tts.calls) - 1) :
        (tts.calls[i].succeeded /\ tts.calls[i + 1].text = tts.calls[i].text) =>
            /\ tts.calls[i + 1].hit
            /\ ~tts.calls[i + 1].synthesis
            /\ tts.calls[i + 1].audio = tts.calls[i].audio

\* C25: every value in the cache is the audio of a synthesis that succeeded,
\* never the empty string; a call that returns the empty string leaves the
\* cache as it was; and the call after a failed one, if it is for the same
\* text, attempts the synthesis again.
C25_FailureNotCached ==
    /\ [](/\ \A i \in 1..Len(cache) :
                /\ cache[i].audio # <<>>
                /\ cache[i].audio = encode_audio(cache[i].text)
          /\ \A i \in 1..(Len(tts.calls) - 1) :
                (/\ tts.calls[i].synthesis
                 /\ ~tts.calls[i].succeeded
                 /\ tts.calls[i + 1].text = tts.calls[i].text)
                    => tts.calls[i + 1].synthesis)
    /\ [][(SpeechCalled /\ Last(tts.calls').audio = <<>>) => cache' = cache]_vars

\* A synthesis failed, and the next call, for the same text, succeeded and
\* was cached.
C25_RetriedAfterFailure ==
    \E i \in 1..(Len(tts.calls) - 1) :
        /\ tts.calls[i].audio = <<>>
        /\ tts.calls[i + 1].text = tts.calls[i].text
        /\ tts.calls[i + 1].succeeded
        /\ cache_has(cache, sanitize_text(tts.calls[i].text))

\* generate_response has been called on its own.
Called == llm_call.calls = 1

\* C26: a call of generate_response does not raise, whatever the history:
\* it returns the content of the reply when the request succeeds, and one of
\* the apology strings when the request fails, when the status is an error,
\* when the body is not JSON, when choices, message or content is missing,
\* and when the history cannot be read.
C26_NeverRaises ==
    Called =>
        /\ ~llm_call.result.raised
        /\ (llm_call.result.built /\ llm_call.http.kind = "content") =>
               llm_call.result.text = llm_call.http.content
        /\ (~llm_call.result.built \/ llm_call.http.kind \in HttpFailureKinds) =>
               llm_call.result.text \in Apologies

\* The call was given a history whose last entry has no role, and returned
\* an apology.
C26_UnreadableHistoryAnswered ==
    /\ Called
    /\ lacks_role(llm_call.history)
    /\ llm_call.result.text \in Apologies

\* The prompt is added as one more user message.
PromptAppended(history) ==
    history = <<>> \/ history[Len(history)].role # "user"

\* C27: the messages a call of generate_response posts are the system
\* message, then the last ten entries of the history it was given (all of
\* them when there are fewer) in their order, then the prompt as a user
\* message if and only if the history is empty or does not end with a user
\* entry; so there is one system message, the first, and the last message
\* is a user message.
C27_MessageListShape ==
    (Called /\ llm_call.result.built) =>
        LET m == llm_call.result.messages
            h == llm_call.history
            extra == IF PromptAppended(h) THEN 1 ELSE 0
            kept == Min(Len(h), LLMWindow)
        IN  /\ Len(m) = 1 + kept + extra
            /\ m[1] = Entry("system", character_persona)
            /\ \A i \in 2..Len(m) : m[i].role # "system"
            /\ \A i \in 1..kept : m[1 + i] = h[Len(h) - kept + i]
            /\ PromptAppended(h) => m[Len(m)] = Entry("user", llm_call.prompt)
            /\ m[Len(m)].role = "user"

\* A history of more than ten entries that ends with an assistant entry:
\* ten of them are posted, and the prompt after them.
C27_LongHistoryPromptAppended ==
    /\ Called
    /\ llm_call.result.built
    /\ Len(llm_call.history) > LLMWindow
    /\ llm_call.history[Len(llm_call.history)].role = "assistant"
    /\ Len(llm_call.result.messages) = LLMWindow + 2

\* How many times websocket c is in active_connections.
Registrations(c) ==
    Cardinality({i \in 1..Len(active_connections) : active_connections[i] = c})

\* C28: active_connections holds each websocket whose task is between its
\* accept and its exit exactly once, and no other websocket: accept adds it,
\* and it is gone once the task has ended, on a disconnect as on any other
\* exception.
C28_RegisteredWhileInLoop ==
    /\ [](\A c \in Conns : Registrations(c) = IF InLoop(c) THEN 1 ELSE 0)
    /\ [][\A c \in Conns :
             /\ (pc[c] = "new" /\ pc'[c] # "new") =>
                    active_connections' = Append(active_connections, c)
             /\ (pc[c] # "closed" /\ pc'[c] = "closed") =>
                    ~is_registered(active_connections', c)]_vars

\* One task has ended on an exception that is not a disconnect, another on a
\* disconnect or still runs, and the list holds what still runs.
C28_EndedOnErrorAndGone ==
    /\ pc[1] = "closed"
    /\ exit_cause[1] = "exception"
    /\ pc[2] = "recv"
    /\ active_connections = <<2>>

\* C29: the history under the identity of a connection whose task runs
\* holds only entries that a text_input received on this connection has
\* produced, at most a user entry and an assistant entry for each, so it is
\* empty when the connection has received none; and so do the messages the
\* task posts to the model after the system message.
C29_HistoryOnlyOwnEntries ==
    \A c \in Conns :
        InLoop(c) =>
            /\ Len(HistoryOf(c)) <= 2 * TextCount(log[c])
            /\ llm_request[c] # <<>> =>
                   Len(llm_request[c]) <= 1 + 2 * TextCount(log[c])

\* C30: on_disconnect is called at most once for the connection, however
\* disconnect() and the receive_messages task that sees the connection
\* close interleave.
C30_DisconnectFiresOnce == unity.on_disconnect <= 1

====
